---- MODULE Spec2Model ----
(***************************************************************************)
(* A2PlusAssemblyToMujoco.py: conversion of an A2Plus assembly (parts with *)
(* placements, colours and source files) plus a YAML description of the    *)
(* kinematic tree into a MuJoCo XML element tree.                          *)
(*                                                                         *)
(* Conventions of the model                                                *)
(*   - a Python dict is a function with a set of strings as DOMAIN, so     *)
(*     "k in d" is  k \in DOMAIN d  and a missing key is a KeyError;       *)
(*   - lengths are integers; quaternion components are in units of 1/2     *)
(*     (the rotations used are Hurwitz units, for which Rotation.multVec   *)
(*     maps integer vectors to integer vectors); colour channels are in    *)
(*     units of 1/100;                                                     *)
(*   - a YAML value is a one-field record: [bool |-> b], [int |-> n],      *)
(*     [str |-> s] or [list |-> <<scalar, ...>>];                          *)
(*   - an xml.etree Element is [tag, attrib, children];                    *)
(*   - an uncaught Python exception ends the macro: pc = "error".          *)
(***************************************************************************)
EXTENDS Integers, Sequences, FiniteSets, TLC

VARIABLES
    assembly,      \* App.ActiveDocument: label -> Part::FeaturePython object
    mujoco_info,   \* the loaded YAML document
    part_info,     \* get_part_info(): label -> [part_obj, src_file]
    mesh_dir,      \* the .stl files written by create_mesh_files
    root_elem,     \* the element tree under construction
    model_file,    \* the content of model.xml, NoFile until it is written
    pc,            \* position in the macro
    err            \* the exception that ended the macro, "" if none

vars == <<assembly, mujoco_info, part_info, mesh_dir, root_elem, model_file, pc, err>>

----------------------------------------------------------------------------
(* Bounds of the model *)

MaxNodes == 3      \* nodes of the topology tree = parts of the assembly
MaxQ == 2          \* quaternion components range over 0..MaxQ in SpecQuat

----------------------------------------------------------------------------
(* Python and FreeCAD primitives *)

Range(s) == {s[i] : i \in DOMAIN s}

RECURSIVE SetToSeq(_)
SetToSeq(S) ==
    IF S = {} THEN <<>>
    ELSE LET m == CHOOSE x \in S : \A y \in S : x <= y
         IN  <<m>> \o SetToSeq(S \ {m})

RECURSIVE Join(_, _)
\* sep.join(strs)
Join(sep, strs) ==
    IF Len(strs) = 0 THEN ""
    ELSE IF Len(strs) = 1 THEN strs[1]
    ELSE strs[1] \o sep \o Join(sep, Tail(strs))

\* str(x) of a YAML scalar or list
PyStr(v) ==
    IF "bool" \in DOMAIN v THEN (IF v.bool THEN "True" ELSE "False")
    ELSE IF "int" \in DOMAIN v THEN ToString(v.int)
    ELSE IF "str" \in DOMAIN v THEN v.str
    ELSE "[" \o Join(", ", [i \in DOMAIN v.list |->
                 IF "str" \in DOMAIN v.list[i] THEN "'" \o v.list[i].str \o "'"
                 ELSE IF "bool" \in DOMAIN v.list[i]
                      THEN (IF v.list[i].bool THEN "True" ELSE "False")
                      ELSE ToString(v.list[i].int)]) \o "]"

\* value == other, for other one of the Python constants True and False:
\* bool is a subclass of int, so 1 == True and 0 == False
PyEqBool(v, b) ==
    \/ "bool" \in DOMAIN v /\ v.bool = b
    \/ "int" \in DOMAIN v /\ v.int = (IF b THEN 1 ELSE 0)

Lower(s) == IF s = "True" THEN "true" ELSE IF s = "False" THEN "false" ELSE s

VecSub(a, b) == <<a[1] - b[1], a[2] - b[2], a[3] - b[3]>>
VecAdd(a, b) == <<a[1] + b[1], a[2] + b[2], a[3] + b[3]>>
Cross(a, b) == <<a[2] * b[3] - a[3] * b[2],
                 a[3] * b[1] - a[1] * b[3],
                 a[1] * b[2] - a[2] * b[1]>>

\* FreeCAD Rotation.multVec: the vector v rotated by the quaternion q = (x,y,z,w),
\* v + (2w (u x v) + 2 u x (u x v)) / |q|^2 with u = (x,y,z)
multVec(q, v) ==
    LET u  == <<q[1], q[2], q[3]>>
        n  == q[1] * q[1] + q[2] * q[2] + q[3] * q[3] + q[4] * q[4]
        t  == Cross(u, v)
        tt == Cross(u, t)
    IN  [i \in 1..3 |-> (n * v[i] + 2 * q[4] * t[i] + 2 * tt[i]) \div n]

Element(tag, attrib) == [tag |-> tag, attrib |-> attrib, children |-> <<>>]
\* ET.SubElement(parent, ...): parent with the new element appended
SubElement(parent, child) == [parent EXCEPT !.children = Append(@, child)]

NoElem == [tag |-> "", attrib |-> <<>>, children |-> <<>>]
NoFile == [tag |-> "", attrib |-> <<>>, children |-> <<>>]

----------------------------------------------------------------------------
(* Module constants of the macro *)

MESH_FILE_DIR == "mesh_files"
MUJOCO_MODEL_FILE == "model.xml"
DEFAULT_COMPILER_ATTRIB == [coordinate |-> "global"]
OPTION_ATTRIB == [gravity |-> "0 0 -1", timestep |-> "0.005"]
FLOOR_ATTRIB == [name |-> "floor", type |-> "plane", material |-> "grid", condim |-> "3"]
GRID_TEXTURE_ATTRIB ==
    [name |-> "grid", type |-> "2d", builtin |-> "checker", width |-> "512",
     height |-> "512", rgb1 |-> "0.1 0.2 0.3", rgb2 |-> "0.2 0.3 0.4"]
GRID_MATERIAL_ATTRIB ==
    [name |-> "grid", texture |-> "grid", texrepeat |-> "10 10",
     texuniform |-> "false", reflectance |-> ".2"]
LIGHT_ATTRIB ==
    [name |-> "spotlight", mode |-> "targetbodycom", diffuse |-> "0.8 0.8 0.8",
     specular |-> "0.2 0.2 0.2"]

----------------------------------------------------------------------------
(* The source documents of the parts, as FreeCAD.openDocument finds them.   *)
(* Every source file holds two points and two datum lines; their placements *)
(* differ from file to file.                                                *)

IdentityQ == <<0, 0, 0, 2>>       \* no rotation
TurnXQ    == <<2, 0, 0, 0>>       \* 180 degrees about x
TurnZQ    == <<0, 0, 2, 0>>       \* 180 degrees about z
DiagQ     == <<1, 1, 1, 1>>       \* 120 degrees about (1,1,1): x -> y -> z -> x

SrcName(f) == "src" \o ToString(f)

SourceDoc(f) ==
    [pivot  |-> [Placement |-> [Base |-> <<2 * f, 0, 2>>, Rotation |-> IdentityQ]],
     tip    |-> [Placement |-> [Base |-> <<0, 2 * f, 4>>, Rotation |-> IdentityQ]],
     datum  |-> [Placement |-> [Base |-> <<0, 0, 0>>,
                                Rotation |-> IF f = 1 THEN DiagQ ELSE TurnXQ]],
     zaxis  |-> [Placement |-> [Base |-> <<0, 0, 0>>, Rotation |-> IdentityQ]]]

SourceDocs == [n \in {SrcName(f) : f \in 1..2} |->
                 SourceDoc(CHOOSE f \in 1..2 : SrcName(f) = n)]

None == [none |-> TRUE]

----------------------------------------------------------------------------
(* Helper functions of the macro *)

\* get_base_name(src_file): the file name without its extension
get_base_name(src_file) == src_file.base

\* get_src_fullpath(src_file, file_info)
get_src_fullpath(src_file, active_doc_dir) ==
    [dir |-> active_doc_dir, base |-> src_file.base, ext |-> src_file.ext]

get_mesh_file(base_name) == base_name \o ".stl"

\* vector_to_str(vector)
vector_to_str(vector) == Join(" ", [i \in DOMAIN vector |-> ToString(vector[i])])

\* variant: the scalar moved to the front with y and z exchanged
convert_quat_to_mujoco_swapped(q) == <<q[4], q[1], q[3], q[2]>>

\* convert_quat_to_mujoco(q)
convert_quat_to_mujoco(q) == <<q[4], q[1], q[2], q[3]>>

\* convert_value_to_mujoco_xml(value)
convert_value_to_mujoco_xml(value) ==
    IF PyEqBool(value, TRUE) \/ PyEqBool(value, FALSE)
    THEN Lower(PyStr(value))
    ELSE IF "list" \in DOMAIN value
    THEN Join(" ", [i \in DOMAIN value.list |-> PyStr(value.list[i])])
    ELSE PyStr(value)

\* doc.findObjects(Label=obj_label)[0] after FreeCAD.openDocument(part_file):
\* the exception it raises, "" when the object is found
FindObjectError(part_file, obj_label) ==
    IF part_file = None THEN "TypeError"              \* os.path.split(None)
    ELSE IF "str" \notin DOMAIN obj_label THEN "TypeError"   \* Label is not a string
    ELSE IF obj_label.str \notin DOMAIN SourceDocs[part_file.base] THEN "IndexError"
    ELSE ""

\* get_placement_base_vector(part_file, obj_label)
get_placement_base_vector(part_file, obj_label) ==
    SourceDocs[part_file.base][obj_label.str].Placement.Base

\* get_placement_rotation(part_file, obj_label)
get_placement_rotation(part_file, obj_label) ==
    SourceDocs[part_file.base][obj_label.str].Placement.Rotation

\* get_datum_line_vector(part_file, axis_label)
get_datum_line_vector(part_file, axis_label) ==
    multVec(get_placement_rotation(part_file, axis_label), <<0, 0, 1>>)

\* invert_color_alpha(color)
invert_color_alpha(color) == <<color[1], color[2], color[3], 100 - color[4]>>

\* get_part_color(part_obj)
get_part_color(part_obj) == invert_color_alpha(part_obj.ShapeColor)

\* the set built by get_color_list; list(color_set) enumerates it in an order
\* the language leaves open
color_set(pinfo) == {get_part_color(pinfo[k].part_obj) : k \in DOMAIN pinfo}

\* the orders list(color_set) may return
ColorLists(pinfo) ==
    {l \in [1..Cardinality(color_set(pinfo)) -> color_set(pinfo)] :
        Range(l) = color_set(pinfo)}

\* color_list.index(color)
Index(list, x) == CHOOSE i \in DOMAIN list : list[i] = x /\ \A j \in 1..(i - 1) : list[j] # x

\* f'{val:1.2f}' of a channel given in hundredths
Format2f(val) ==
    ToString(val \div 100) \o "." \o ToString((val % 100) \div 10) \o ToString(val % 10)

\* get_label_to_color_name(part_info), with the list its get_color_list returned
get_label_to_color_name(pinfo, color_list) ==
    [k \in DOMAIN pinfo |->
        "color_" \o ToString(Index(color_list, get_part_color(pinfo[k].part_obj)) - 1)]

Max(S) == CHOOSE x \in S : \A y \in S : y <= x
Min(S) == CHOOSE x \in S : \A y \in S : x <= y

\* get_xyz_extent(part_info): <<xvals, yvals, zvals>>, each <<min, max>>
get_xyz_extent(pinfo) ==
    [c \in 1..3 |->
        <<Min({pinfo[k].part_obj.Shape.BoundBox.Min[c] : k \in DOMAIN pinfo}),
          Max({pinfo[k].part_obj.Shape.BoundBox.Max[c] : k \in DOMAIN pinfo})>>]

----------------------------------------------------------------------------
(* The steps of create_mujoco_xml_file *)

L(i) == "part" \o ToString(i)

\* part_info.items(): the catalog's labels in the order findObjects gave them
Items(pinfo) == SelectSeq([i \in 1..(MaxNodes + 1) |-> L(i)], LAMBDA k : k \in DOMAIN pinfo)

\* the user's compiler attributes laid over the defaults, and the compiler element
compiler_elem(minfo) ==
    LET user == IF "compiler" \in DOMAIN minfo
                THEN [k \in DOMAIN minfo.compiler |->
                         convert_value_to_mujoco_xml(minfo.compiler[k])]
                ELSE <<>>
    IN  Element("compiler", user @@ DEFAULT_COMPILER_ATTRIB)

\* add_option: the option element; mujoco_info['option'] is read unguarded
option_elem(minfo) ==
    LET user == [k \in DOMAIN minfo.option |->
                    IF "list" \in DOMAIN minfo.option[k]
                    THEN Join(" ", [i \in DOMAIN minfo.option[k].list |->
                                       PyStr(minfo.option[k].list[i])])
                    ELSE PyStr(minfo.option[k])]
    IN  Element("option", user @@ OPTION_ATTRIB)

\* add_assets: one mesh per catalog entry, one material per listed colour,
\* then the grid texture and material
asset_elem(pinfo, color_list) ==
    LET items  == Items(pinfo)
        meshes == [i \in DOMAIN items |->
                     Element("mesh",
                         [file |-> "./" \o MESH_FILE_DIR \o "/"
                                   \o get_mesh_file(get_base_name(pinfo[items[i]].src_file))])]
        colors == [i \in DOMAIN color_list |->
                     Element("material",
                         [name |-> "color_" \o ToString(i - 1),
                          rgba |-> Join(" ", [c \in 1..4 |-> Format2f(color_list[i][c])])])]
    IN  [tag |-> "asset", attrib |-> <<>>,
         children |-> meshes \o colors
                      \o <<Element("texture", GRID_TEXTURE_ATTRIB),
                           Element("material", GRID_MATERIAL_ATTRIB)>>]

\* variant: the bare joint keyed on the spelling "free"
is_freejoint_spelled_free(body_joint_type) == body_joint_type = "free"

\* "if body_joint_type == 'freejoint'": the one type emitted as a bare freejoint
is_freejoint(body_joint_type) == body_joint_type = "freejoint"

\* variant: the children visited last to first
child_infos_reversed(body_mujoco_info) ==
    IF "children" \in DOMAIN body_mujoco_info
    THEN [i \in DOMAIN body_mujoco_info.children |->
             body_mujoco_info.children[Len(body_mujoco_info.children) + 1 - i]]
    ELSE <<>>

\* "for child_mujoco_info in body_mujoco_info['children']", guarded by the key test
child_infos(body_mujoco_info) ==
    IF "children" \in DOMAIN body_mujoco_info THEN body_mujoco_info.children ELSE <<>>

\* variant: the position taken relative to the parent body below the root
pos_vector_from_parent(pinfo, root_base_vector, parent_mujoco_info, body_label) ==
    IF DOMAIN parent_mujoco_info # {}
    THEN VecSub(pinfo[body_label].part_obj.Placement.Base,
                pinfo[parent_mujoco_info.label].part_obj.Placement.Base)
    ELSE VecSub(pinfo[body_label].part_obj.Placement.Base, root_base_vector)

\* "pos_vector = body_pos_vector - root_base_vector"
pos_vector_of(pinfo, root_base_vector, parent_mujoco_info, body_label) ==
    VecSub(pinfo[body_label].part_obj.Placement.Base, root_base_vector)

\* the joint sub-element of a body, <<>> when the node declares no joint
joint_elems(parent_src_file, parent_rot, body_label, body_pos_str, body_mujoco_info) ==
    IF "joint" \notin DOMAIN body_mujoco_info THEN <<>>
    ELSE
    LET joint == body_mujoco_info.joint
        name  == [name |-> body_label \o "_joint"]
    IN  IF is_freejoint(joint.type)
        THEN <<Element("freejoint", name)>>
        ELSE
        LET base   == [name |-> body_label \o "_joint", type |-> joint.type,
                       pos |-> body_pos_str]
            params == IF "parameters" \in DOMAIN joint THEN joint.parameters ELSE <<>>
            user   == [k \in DOMAIN params |->
                         IF k = "axis"
                         THEN vector_to_str(multVec(parent_rot,
                                  get_datum_line_vector(parent_src_file, params[k])))
                         ELSE convert_value_to_mujoco_xml(params[k])]
        IN  <<Element("joint", user @@ base)>>

RECURSIVE add_body_to_tree(_, _, _, _, _)
\* add_body_to_tree(parent_elem, parent_mujoco_info, body_mujoco_info): the body
\* element it appends to parent_elem, with everything below it
add_body_to_tree(pinfo, root_base_vector, label_to_color_name, parent_mujoco_info, body_mujoco_info) ==
    LET has_parent      == DOMAIN parent_mujoco_info # {}
        parent_src_file == IF has_parent
                           THEN get_src_fullpath(pinfo[parent_mujoco_info.label].src_file, "asm")
                           ELSE None
        parent_rot      == IF has_parent
                           THEN pinfo[parent_mujoco_info.label].part_obj.Placement.Rotation
                           ELSE None
        body_label      == body_mujoco_info.label
        body_part_info  == pinfo[body_label]
        body_placement  == body_part_info.part_obj.Placement
        body_base_name  == get_base_name(body_part_info.src_file)
        pos_vector      == pos_vector_of(pinfo, root_base_vector, parent_mujoco_info,
                                         body_label)
        body_pos_str    == vector_to_str(pos_vector)
        body_quat_str   == vector_to_str(convert_quat_to_mujoco(body_placement.Rotation))
        geom            == Element("geom",
                              [name |-> body_label \o "_mesh", type |-> "mesh",
                               mesh |-> body_base_name,
                               material |-> label_to_color_name[body_label],
                               pos |-> body_pos_str, quat |-> body_quat_str])
        kids            == child_infos(body_mujoco_info)
    IN  [tag |-> "body",
         attrib |-> [name |-> body_label, pos |-> body_pos_str, quat |-> body_quat_str],
         children |-> <<geom>>
             \o joint_elems(parent_src_file, parent_rot, body_label, body_pos_str,
                            body_mujoco_info)
             \o [i \in DOMAIN kids |->
                    add_body_to_tree(pinfo, root_base_vector, label_to_color_name,
                                     body_mujoco_info, kids[i])]]

RECURSIVE body_error(_, _, _)
\* the exception add_body_to_tree raises for this node or one below it, "" if none
body_error(pinfo, parent_mujoco_info, body_mujoco_info) ==
    LET has_parent      == DOMAIN parent_mujoco_info # {}
        parent_src_file == IF has_parent
                           THEN get_src_fullpath(pinfo[parent_mujoco_info.label].src_file, "asm")
                           ELSE None
        joint           == body_mujoco_info.joint
        kids            == child_infos(body_mujoco_info)
        below           == [i \in DOMAIN kids |-> body_error(pinfo, body_mujoco_info, kids[i])]
        failing         == {i \in DOMAIN kids : below[i] # ""}
    IN  IF body_mujoco_info.label \notin DOMAIN pinfo THEN "KeyError"
        ELSE IF "joint" \in DOMAIN body_mujoco_info /\ "type" \notin DOMAIN joint
        THEN "KeyError"
        ELSE IF /\ "joint" \in DOMAIN body_mujoco_info
                /\ ~is_freejoint(joint.type)
                /\ "parameters" \in DOMAIN joint
                /\ "axis" \in DOMAIN joint.parameters
                /\ FindObjectError(parent_src_file, joint.parameters.axis) # ""
        THEN FindObjectError(parent_src_file, joint.parameters.axis)
        ELSE IF failing = {} THEN "" ELSE below[Min(failing)]

\* the root anchor: the point the root's joint position names, else the origin
root_base_vector_of(pinfo, root_mujoco_info) ==
    IF "joint" \in DOMAIN root_mujoco_info /\ "position" \in DOMAIN root_mujoco_info.joint
    THEN get_placement_base_vector(
             get_src_fullpath(pinfo[root_mujoco_info.label].src_file, "asm"),
             root_mujoco_info.joint.position)
    ELSE <<0, 0, 0>>

\* the exception add_bodies raises, "" if none
bodies_error(pinfo, minfo) ==
    LET root_mujoco_info == minfo.worldbody.body_tree
        root_src_file    == get_src_fullpath(pinfo[root_mujoco_info.label].src_file, "asm")
    IN  IF root_mujoco_info.label \notin DOMAIN pinfo THEN "KeyError"
        ELSE IF /\ "joint" \in DOMAIN root_mujoco_info
                /\ "position" \in DOMAIN root_mujoco_info.joint
                /\ FindObjectError(root_src_file, root_mujoco_info.joint.position) # ""
        THEN FindObjectError(root_src_file, root_mujoco_info.joint.position)
        ELSE body_error(pinfo, <<>>, root_mujoco_info)

\* add_bodies: the worldbody element with the floor, the light and the body tree
worldbody_elem(pinfo, minfo, color_list) ==
    LET root_mujoco_info == minfo.worldbody.body_tree
        extent    == get_xyz_extent(pinfo)
        biggest   == Max({extent[1][2], extent[2][2], extent[3][2]})
        floor_dim == ToString(10 * biggest)
        floor     == Element("geom",
                        [size |-> floor_dim \o " " \o floor_dim \o " 0.05"] @@ FLOOR_ATTRIB)
        light     == Element("light",
                        [pos    |-> Join(" ", [c \in 1..3 |-> ToString((3 * extent[c][2]) \div 2)]),
                         cutoff |-> ToString(2 * biggest),
                         target |-> root_mujoco_info.label] @@ LIGHT_ATTRIB)
    IN  [tag |-> "worldbody", attrib |-> <<>>,
         children |-> <<floor, light,
             add_body_to_tree(pinfo, root_base_vector_of(pinfo, root_mujoco_info),
                              get_label_to_color_name(pinfo, color_list),
                              <<>>, root_mujoco_info)>>]

\* variant: the anchor translated by body2's position without being rotated
anchor_vector_unrotated(pinfo, param_info) ==
    VecAdd(get_placement_base_vector(
               get_src_fullpath(pinfo[param_info.body2.str].src_file, "asm"),
               param_info.anchor),
           pinfo[param_info.body2.str].part_obj.Placement.Base)

\* the anchor of an equality: the named point of body2's source document, rotated
\* and translated by body2's own placement in the assembly
anchor_vector(pinfo, param_info) ==
    LET body2_label    == param_info.body2.str
        body2_part_obj == pinfo[body2_label].part_obj
        body2_src_file == get_src_fullpath(pinfo[body2_label].src_file, "asm")
        local          == get_placement_base_vector(body2_src_file, param_info.anchor)
    IN  VecAdd(multVec(body2_part_obj.Placement.Rotation, local),
               body2_part_obj.Placement.Base)

\* one child of the equality element
equality_child(pinfo, equality_info) ==
    LET param_info == IF "parameters" \in DOMAIN equality_info
                      THEN equality_info.parameters ELSE <<>>
    IN  Element(equality_info.type,
            [k \in DOMAIN param_info |->
                IF k = "anchor"
                THEN vector_to_str(anchor_vector(pinfo, param_info))
                ELSE convert_value_to_mujoco_xml(param_info[k])])

\* the exception one equality declaration raises, "" if none
equality_error(pinfo, equality_info) ==
    LET param_info == equality_info.parameters
    IN  IF "type" \notin DOMAIN equality_info THEN "KeyError"
        ELSE IF "parameters" \notin DOMAIN equality_info THEN ""
        ELSE IF "anchor" \notin DOMAIN param_info THEN ""
        ELSE IF "body2" \notin DOMAIN param_info THEN "KeyError"
        ELSE IF "str" \notin DOMAIN param_info.body2 THEN "TypeError"
        ELSE IF param_info.body2.str \notin DOMAIN pinfo THEN "KeyError"
        ELSE FindObjectError(
                 get_src_fullpath(pinfo[param_info.body2.str].src_file, "asm"),
                 param_info.anchor)

equalities_error(pinfo, minfo) ==
    LET failing == {i \in DOMAIN minfo.equality : equality_error(pinfo, minfo.equality[i]) # ""}
    IN  IF failing = {} THEN "" ELSE equality_error(pinfo, minfo.equality[Min(failing)])

\* variant: the equality element appended whether or not the key is there
add_equalities_always(root, pinfo, minfo) ==
    SubElement(root,
        [tag |-> "equality", attrib |-> <<>>,
         children |-> IF "equality" \in DOMAIN minfo
                      THEN [i \in DOMAIN minfo.equality |->
                               equality_child(pinfo, minfo.equality[i])]
                      ELSE <<>>])

\* add_equalities(root_elem, part_info, file_info, mujoco_info)
add_equalities(root, pinfo, minfo) ==
    IF "equality" \notin DOMAIN minfo THEN root
    ELSE SubElement(root,
             [tag |-> "equality", attrib |-> <<>>,
              children |-> [i \in DOMAIN minfo.equality |->
                               equality_child(pinfo, minfo.equality[i])]])

\* one child of the actuator element
actuator_child(actuator_info) ==
    LET param_info == IF "parameters" \in DOMAIN actuator_info
                      THEN actuator_info.parameters ELSE <<>>
    IN  Element(actuator_info.type,
            [k \in DOMAIN param_info |-> convert_value_to_mujoco_xml(param_info[k])])

actuators_error(minfo) ==
    IF \E i \in DOMAIN minfo.actuator : "type" \notin DOMAIN minfo.actuator[i]
    THEN "KeyError" ELSE ""

\* add_actuators(root_elem, part_info, mujoco_info)
add_actuators(root, minfo) ==
    IF "actuator" \notin DOMAIN minfo THEN root
    ELSE SubElement(root,
             [tag |-> "actuator", attrib |-> <<>>,
              children |-> [i \in DOMAIN minfo.actuator |->
                               actuator_child(minfo.actuator[i])]])

----------------------------------------------------------------------------
(* The macro as a state machine: the statements at the end of the file, with *)
(* create_mujoco_xml_file unfolded into the calls it makes.                  *)

\* get_part_info(): the catalog, with each source file's directory split off
get_part_info(app_doc) ==
    [k \in DOMAIN app_doc |->
        [part_obj |-> app_doc[k],
         src_file |-> [base |-> app_doc[k].sourceFile.base,
                       ext  |-> app_doc[k].sourceFile.ext]]]

\* part_info = get_part_info()
GetPartInfo ==
    /\ pc = "get_part_info"
    /\ part_info' = get_part_info(assembly)
    /\ pc' = "create_mesh_files"
    /\ UNCHANGED <<assembly, mujoco_info, mesh_dir, root_elem, model_file, err>>

\* create_mesh_files(part_info, file_info)
CreateMeshFiles ==
    /\ pc = "create_mesh_files"
    /\ mesh_dir' = {get_mesh_file(get_base_name(part_info[k].src_file)) : k \in DOMAIN part_info}
    /\ pc' = "compiler"
    /\ UNCHANGED <<assembly, mujoco_info, part_info, root_elem, model_file, err>>

\* create_mujoco_xml_file, up to the compiler element
CreateRoot ==
    /\ pc = "compiler"
    /\ root_elem' = SubElement(Element("mujoco", <<>>), compiler_elem(mujoco_info))
    /\ pc' = "add_option"
    /\ UNCHANGED <<assembly, mujoco_info, part_info, mesh_dir, model_file, err>>

\* add_option(root_elem, part_info, mujoco_info)
AddOption ==
    /\ pc = "add_option"
    /\ IF "option" \notin DOMAIN mujoco_info
       THEN pc' = "error" /\ err' = "KeyError: 'option'" /\ UNCHANGED root_elem
       ELSE /\ root_elem' = SubElement(root_elem, option_elem(mujoco_info))
            /\ pc' = "add_assets"
            /\ UNCHANGED err
    /\ UNCHANGED <<assembly, mujoco_info, part_info, mesh_dir, model_file>>

\* add_assets(root_elem, part_info, mujoco_info)
AddAssets ==
    /\ pc = "add_assets"
    /\ \E color_list \in ColorLists(part_info) :
           root_elem' = SubElement(root_elem, asset_elem(part_info, color_list))
    /\ pc' = "add_bodies"
    /\ UNCHANGED <<assembly, mujoco_info, part_info, mesh_dir, model_file, err>>

\* variant: whatever has been built is saved when add_bodies raises
AddBodies_saving_partial ==
    /\ pc = "add_bodies"
    /\ IF bodies_error(part_info, mujoco_info) # ""
       THEN /\ pc' = "error"
            /\ err' = bodies_error(part_info, mujoco_info)
            /\ model_file' = root_elem
            /\ UNCHANGED root_elem
       ELSE /\ \E color_list \in ColorLists(part_info) :
                   root_elem' = SubElement(root_elem,
                                    worldbody_elem(part_info, mujoco_info, color_list))
            /\ pc' = "add_equalities"
            /\ UNCHANGED <<err, model_file>>
    /\ UNCHANGED <<assembly, mujoco_info, part_info, mesh_dir>>

\* add_bodies(root_elem, part_info, file_info, mujoco_info)
AddBodies ==
    /\ pc = "add_bodies"
    /\ IF bodies_error(part_info, mujoco_info) # ""
       THEN /\ pc' = "error"
            /\ err' = bodies_error(part_info, mujoco_info)
            /\ UNCHANGED root_elem
       ELSE /\ \E color_list \in ColorLists(part_info) :
                   root_elem' = SubElement(root_elem,
                                    worldbody_elem(part_info, mujoco_info, color_list))
            /\ pc' = "add_equalities"
            /\ UNCHANGED err
    /\ UNCHANGED <<assembly, mujoco_info, part_info, mesh_dir, model_file>>

\* add_equalities(root_elem, part_info, file_info, mujoco_info)
AddEqualities ==
    /\ pc = "add_equalities"
    /\ IF "equality" \in DOMAIN mujoco_info /\ equalities_error(part_info, mujoco_info) # ""
       THEN /\ pc' = "error"
            /\ err' = equalities_error(part_info, mujoco_info)
            /\ UNCHANGED root_elem
       ELSE /\ root_elem' = add_equalities(root_elem, part_info, mujoco_info)
            /\ pc' = "add_actuators"
            /\ UNCHANGED err
    /\ UNCHANGED <<assembly, mujoco_info, part_info, mesh_dir, model_file>>

\* add_actuators(root_elem, part_info, mujoco_info)
AddActuators ==
    /\ pc = "add_actuators"
    /\ IF "actuator" \in DOMAIN mujoco_info /\ actuators_error(mujoco_info) # ""
       THEN /\ pc' = "error"
            /\ err' = actuators_error(mujoco_info)
            /\ UNCHANGED root_elem
       ELSE /\ root_elem' = add_actuators(root_elem, mujoco_info)
            /\ pc' = "write"
            /\ UNCHANGED err
    /\ UNCHANGED <<assembly, mujoco_info, part_info, mesh_dir, model_file>>

\* the tail of create_mujoco_xml_file: serialise the tree and write model.xml
WriteFile ==
    /\ pc = "write"
    /\ model_file' = root_elem
    /\ pc' = "done"
    /\ UNCHANGED <<assembly, mujoco_info, part_info, mesh_dir, root_elem, err>>

Next ==
    \/ GetPartInfo
    \/ CreateMeshFiles
    \/ CreateRoot
    \/ AddOption
    \/ AddAssets
    \/ AddBodies
    \/ AddEqualities
    \/ AddActuators
    \/ WriteFile

----------------------------------------------------------------------------
(* The inputs: an assembly and a YAML document.  Init draws them from five   *)
(* families, each varying one aspect of a nominal input.                     *)

YBool(b) == [bool |-> b]
YInt(n)  == [int |-> n]
YStr(s)  == [str |-> s]
YList(l) == [list |-> l]

Rotations == <<IdentityQ, DiagQ, TurnXQ, TurnZQ>>
Grey      == <<80, 80, 80, 0>>
Palette   == {Grey, <<20, 50, 90, 0>>, <<80, 80, 80, 50>>}

\* part i of the assembly: parts alternate between two source files, stand at
\* distinct places and are cubes of side 4 about their origin
Part(i, rot, color) ==
    LET base == <<2 * i, 2 * i * i, 4>>
    IN  [Name       |-> L(i),
         Label      |-> L(i),
         sourceFile |-> [dir |-> "asm", base |-> SrcName(((i - 1) % 2) + 1), ext |-> ".FCStd"],
         Placement  |-> [Base |-> base, Rotation |-> rot],
         ShapeColor |-> color,
         Shape      |-> [BoundBox |-> [Min |-> [c \in 1..3 |-> base[c] - 2],
                                       Max |-> [c \in 1..3 |-> base[c] + 2]]]]

Assembly(n, rotOf, colorOf) ==
    [k \in {L(i) : i \in 1..n} |->
        LET i == CHOOSE j \in 1..n : L(j) = k IN Part(i, rotOf[i], colorOf[i])]

\* the parent of every node but the first; a node's parent precedes it
ParentVectors(n) == {par \in [2..n -> 1..n] : \A j \in 2..n : par[j] < j}
Chain(n) == [j \in 2..n |-> j - 1]

RECURSIVE BuildNode(_, _, _, _)
\* node i of the tree: its label, its joint (if any) and its children in order
BuildNode(i, n, par, jointOf) ==
    LET kids == SetToSeq({j \in (i + 1)..n : par[j] = i})
    IN  [label |-> L(i)] @@ jointOf[i]
        @@ (IF kids = <<>> THEN <<>>
            ELSE [children |-> [k \in DOMAIN kids |-> BuildNode(kids[k], n, par, jointOf)]])

RootJoints ==
    {<<>>,
     [joint |-> [type |-> "freejoint"]],
     [joint |-> [type |-> "freejoint", position |-> YStr("pivot")]],
     [joint |-> [type |-> "freejoint", position |-> YStr("tip")]]}

NominalJoint(i) ==
    IF i = 1 THEN [joint |-> [type |-> "freejoint", position |-> YStr("pivot")]]
    ELSE [joint |-> [type |-> IF i % 2 = 0 THEN "hinge" ELSE "slide",
                     parameters |-> [axis  |-> YStr("datum"),
                                     range |-> YList(<<YInt(0), YInt(i)>>)]]]

JointOptions ==
    {<<>>,
     [joint |-> [type |-> "freejoint", position |-> YStr("tip"),
                 parameters |-> [axis |-> YStr("datum"), damping |-> YInt(1)]]],
     [joint |-> [type |-> "free", position |-> YStr("tip"),
                 parameters |-> [axis |-> YStr("datum")]]],
     [joint |-> [type |-> "free"]],
     [joint |-> [type |-> "hinge"]],
     [joint |-> [type |-> "hinge",
                 parameters |-> [axis |-> YStr("zaxis"), damping |-> YInt(1)]]],
     [joint |-> [type |-> "hinge",
                 parameters |-> [axis |-> YList(<<YInt(0), YInt(0), YInt(1)>>)]]],
     [joint |-> [type |-> "hinge", parameters |-> [axis |-> YStr("nowhere")]]],
     [joint |-> [type |-> "slide",
                 parameters |-> [range |-> YList(<<YInt(0), YInt(1)>>),
                                 limited |-> YBool(TRUE)]]]}

Values ==
    {YBool(TRUE), YBool(FALSE), YInt(0), YInt(1), YInt(5), YStr("radian"),
     YList(<<YInt(0), YInt(0), YInt(-10)>>), YList(<<YBool(TRUE), YInt(1)>>)}

NominalConfig(tree) ==
    [compiler  |-> [angle |-> YStr("radian")],
     option    |-> [gravity |-> YList(<<YInt(0), YInt(0), YInt(-10)>>)],
     worldbody |-> [body_tree |-> tree],
     actuator  |-> <<[type |-> "motor",
                      parameters |-> [joint |-> YStr(L(2) \o "_joint"), gear |-> YInt(5)]]>>]

InputsFixed ==
    /\ part_info = <<>>
    /\ mesh_dir = {}
    /\ root_elem = NoElem
    /\ model_file = NoFile
    /\ pc = "get_part_info"
    /\ err = ""

\* tree shape, root anchor, part orientations and the equality's second body
InitPlacement ==
    \E n \in 1..MaxNodes, rj \in RootJoints, r \in 0..3, b2 \in 1..MaxNodes :
    \E par \in ParentVectors(n) :
        /\ assembly = Assembly(MaxNodes,
                               [i \in 1..MaxNodes |-> Rotations[((i + r) % 4) + 1]],
                               [i \in 1..MaxNodes |-> Grey])
        /\ mujoco_info =
               [equality |-> <<[type |-> "connect",
                                parameters |-> [body1  |-> YStr(L(1)),
                                                body2  |-> YStr(L(b2)),
                                                anchor |-> YStr("tip"),
                                                active |-> YBool(TRUE)]]>>]
               @@ NominalConfig(BuildNode(1, n, par,
                      [i \in 1..n |-> IF i = 1 THEN rj ELSE NominalJoint(i)]))
        /\ InputsFixed

\* the joint declaration of one node
InitJoint ==
    \E n \in 1..MaxNodes, j \in JointOptions :
    \E par \in ParentVectors(n), v \in 1..n :
        /\ assembly = Assembly(MaxNodes,
                               [i \in 1..MaxNodes |-> Rotations[(i % 4) + 1]],
                               [i \in 1..MaxNodes |-> Grey])
        /\ mujoco_info =
               NominalConfig(BuildNode(1, n, par,
                   [i \in 1..n |-> IF i = v THEN j ELSE NominalJoint(i)]))
        /\ InputsFixed

\* which sections the document has, and one value placed in each of them
InitConfig ==
    \E present \in SUBSET {"compiler", "option", "equality", "actuator"}, v \in Values :
        /\ assembly = Assembly(MaxNodes,
                               [i \in 1..MaxNodes |-> Rotations[(i % 4) + 1]],
                               [i \in 1..MaxNodes |-> Grey])
        /\ mujoco_info =
               LET all ==
                   [compiler  |-> [flag |-> v],
                    option    |-> [flag |-> v],
                    equality  |-> <<[type |-> "weld",
                                     parameters |-> [body1 |-> YStr(L(1)),
                                                     body2 |-> YStr(L(2)),
                                                     flag  |-> v]],
                                    [type |-> "joint"]>>,
                    actuator  |-> <<[type |-> "motor",
                                     parameters |-> [joint |-> YStr(L(2) \o "_joint"),
                                                     flag  |-> v]],
                                    [type |-> "position"]>>,
                    worldbody |-> [body_tree |->
                        BuildNode(1, 2, Chain(2),
                            [i \in 1..2 |->
                                IF i = 1 THEN NominalJoint(1)
                                ELSE [joint |-> [type |-> "hinge",
                                                 parameters |-> [axis |-> YStr("datum"),
                                                                 flag |-> v]]]])]]
               IN  [k \in present \cup {"worldbody"} |-> all[k]]
        /\ InputsFixed

\* the colours of the parts
InitColor ==
    \E colorOf \in [1..MaxNodes -> Palette] :
        /\ assembly = Assembly(MaxNodes,
                               [i \in 1..MaxNodes |-> Rotations[(i % 4) + 1]], colorOf)
        /\ mujoco_info =
               NominalConfig(BuildNode(1, MaxNodes, [j \in 2..MaxNodes |-> 1],
                                       [i \in 1..MaxNodes |-> NominalJoint(i)]))
        /\ InputsFixed

\* the orientation of a single part: any 4-tuple
InitQuat ==
    \E q \in [1..4 -> 0..MaxQ] :
        /\ assembly = Assembly(1, [i \in 1..1 |-> q], [i \in 1..1 |-> Grey])
        /\ mujoco_info = NominalConfig(BuildNode(1, 1, Chain(1), [i \in 1..1 |-> <<>>]))
        /\ InputsFixed

\* a model.xml left in the save directory by an earlier run
StaleFile == [tag |-> "mujoco", attrib |-> <<>>, children |-> <<Element("stale", <<>>)>>]

\* what the references name: a chain whose last part may be missing from the
\* assembly, a root point, an equality's second body and its anchor point, each
\* of which may name nothing; and whether model.xml exists beforehand
InitReference ==
    \E np \in {MaxNodes - 1, MaxNodes}, rp \in {"pivot", "nowhere"},
       b2 \in 1..(MaxNodes + 1), a \in {"tip", "zaxis", "nowhere"},
       old \in {NoFile, StaleFile} :
        /\ assembly = Assembly(np,
                               [i \in 1..np |-> Rotations[(i % 4) + 1]],
                               [i \in 1..np |-> Grey])
        /\ mujoco_info =
               [equality |-> <<[type |-> "connect",
                                parameters |-> [body1  |-> YStr(L(1)),
                                                body2  |-> YStr(L(b2)),
                                                anchor |-> YStr(a)]]>>]
               @@ NominalConfig(BuildNode(1, MaxNodes, Chain(MaxNodes),
                      [i \in 1..MaxNodes |->
                          IF i = 1
                          THEN [joint |-> [type |-> "freejoint", position |-> YStr(rp)]]
                          ELSE NominalJoint(i)]))
        /\ part_info = <<>>
        /\ mesh_dir = {}
        /\ root_elem = NoElem
        /\ model_file = old
        /\ pc = "get_part_info"
        /\ err = ""

Init == InitPlacement \/ InitJoint \/ InitConfig \/ InitColor \/ InitQuat \/ InitReference

Spec == Init /\ [][Next]_vars

----------------------------------------------------------------------------
(* Reading the output *)

\* the children of an element that carry a tag
Children(elem, tag) == SelectSeq(elem.children, LAMBDA c : c.tag = tag)

\* the top-level sections of the tree under construction
Section(tag) == Children(root_elem, tag)

Reached(steps) == pc \in steps
AfterBodies     == Reached({"add_equalities", "add_actuators", "write", "done"})
AfterEqualities == Reached({"add_actuators", "write", "done"})
AfterActuators  == Reached({"write", "done"})

Worldbody == Section("worldbody")[1]
Tree == mujoco_info.worldbody.body_tree

RECURSIVE AllBodies(_)
\* every body element at or below an element
AllBodies(elem) ==
    (IF elem.tag = "body" THEN {elem} ELSE {})
    \cup UNION {AllBodies(elem.children[i]) : i \in DOMAIN elem.children}

RECURSIVE AllNodes(_)
\* every node of a topology tree
AllNodes(node) ==
    {node} \cup (IF "children" \in DOMAIN node
                 THEN UNION {AllNodes(node.children[i]) : i \in DOMAIN node.children}
                 ELSE {})

RECURSIVE Sum(_)
Sum(seq) == IF seq = <<>> THEN 0 ELSE Head(seq) + Sum(Tail(seq))

RECURSIVE CountNodes(_)
\* the number of nodes of a topology tree
CountNodes(node) ==
    1 + (IF "children" \in DOMAIN node
         THEN Sum([i \in DOMAIN node.children |-> CountNodes(node.children[i])])
         ELSE 0)

RECURSIVE CountBodies(_)
\* the number of body elements at or below an element
CountBodies(elem) ==
    (IF elem.tag = "body" THEN 1 ELSE 0)
    + Sum([i \in DOMAIN elem.children |-> CountBodies(elem.children[i])])

RECURSIVE Mirrors(_, _)
\* a body element is named as the node and its body children mirror the node's
\* children, one for one and in order
Mirrors(elem, node) ==
    LET bodies == Children(elem, "body")
        kids   == IF "children" \in DOMAIN node THEN node.children ELSE <<>>
    IN  /\ elem.tag = "body"
        /\ elem.attrib.name = node.label
        /\ Len(bodies) = Len(kids)
        /\ \A i \in DOMAIN kids : Mirrors(bodies[i], kids[i])

RECURSIVE Depth(_)
Depth(node) ==
    IF "children" \in DOMAIN node /\ node.children # <<>>
    THEN 1 + Max({Depth(node.children[i]) : i \in DOMAIN node.children})
    ELSE 1

----------------------------------------------------------------------------
(* C1: once add_bodies has returned, worldbody holds one body element per      *)
(* topology node, named by the node's label, and the bodies nest as the nodes  *)
(* do: the root's body directly under worldbody, each child's body directly    *)
(* under its parent's, siblings in the order of the children list.             *)
C1_BodiesMirrorTopology ==
    AfterBodies =>
        /\ Len(Section("worldbody")) = 1
        /\ Len(Children(Worldbody, "body")) = 1
        /\ Mirrors(Children(Worldbody, "body")[1], Tree)
        /\ CountBodies(Worldbody) = CountNodes(Tree)

\* a written model whose root has two children
C1_Witness ==
    /\ pc = "done"
    /\ "children" \in DOMAIN Tree
    /\ Len(Tree.children) >= 2
    /\ Len(Children(Children(Worldbody, "body")[1], "body")) >= 2

----------------------------------------------------------------------------
(* C2: every body, at every depth, has pos = the part's absolute position      *)
(* minus the root anchor, the anchor being the point the root's joint position *)
(* names in the root part's source document, or the origin when it names none. *)
RootAnchor ==
    IF "joint" \in DOMAIN Tree /\ "position" \in DOMAIN Tree.joint
    THEN SourceDocs[assembly[Tree.label].sourceFile.base][Tree.joint.position.str].Placement.Base
    ELSE <<0, 0, 0>>

C2_PosIsAbsoluteMinusAnchor ==
    AfterBodies =>
        \A b \in AllBodies(Worldbody) :
            LET abs == assembly[b.attrib.name].Placement.Base
            IN  b.attrib.pos = Join(" ", <<ToString(abs[1] - RootAnchor[1]),
                                          ToString(abs[2] - RootAnchor[2]),
                                          ToString(abs[3] - RootAnchor[3])>>)

\* a written model with a non-zero anchor and a body three levels deep
C2_Witness ==
    /\ pc = "done"
    /\ RootAnchor # <<0, 0, 0>>
    /\ Depth(Tree) >= 3
    /\ Cardinality(AllBodies(Worldbody)) >= 3

----------------------------------------------------------------------------
(* C3: convert_quat_to_mujoco sends (x,y,z,w) to (w,x,y,z); it is one-to-one   *)
(* and onto the 4-tuples; the inverse permutation (a,b,c,d) -> (b,c,d,a)       *)
(* undoes it; applied twice it gives (z,w,x,y), which differs from (x,y,z,w)   *)
(* exactly when (x,y) # (z,w).  Checked for the orientation of every part and  *)
(* on the quat attribute add_bodies writes.                                    *)
QuatTuples == [1..4 -> 0..MaxQ]
InversePermutation(m) == <<m[2], m[3], m[4], m[1]>>

C3_QuatReindex ==
    \A k \in DOMAIN assembly :
        LET q == assembly[k].Placement.Rotation
            m == convert_quat_to_mujoco(q)
        IN  /\ m = <<q[4], q[1], q[2], q[3]>>
            /\ InversePermutation(m) = q
            /\ convert_quat_to_mujoco(m) = <<q[3], q[4], q[1], q[2]>>
            /\ (convert_quat_to_mujoco(m) # q) <=> (<<q[1], q[2]>> # <<q[3], q[4]>>)
            /\ \A q2 \in QuatTuples : convert_quat_to_mujoco(q2) = m => q2 = q
            /\ q \in QuatTuples => \E q2 \in QuatTuples : convert_quat_to_mujoco(q2) = q
            /\ AfterBodies =>
                   \A b \in AllBodies(Worldbody) :
                       b.attrib.name = k =>
                           b.attrib.quat = Join(" ", <<ToString(q[4]), ToString(q[1]),
                                                       ToString(q[2]), ToString(q[3])>>)

\* a written model of a part whose orientation has four different components
\* placed so that a second application does not restore it
C3_Witness ==
    /\ pc = "done"
    /\ \E k \in DOMAIN assembly :
           LET q == assembly[k].Placement.Rotation
           IN  /\ <<q[1], q[2]>> # <<q[3], q[4]>>
               /\ q[1] # q[2]
               /\ \E b \in AllBodies(Worldbody) : b.attrib.name = k

----------------------------------------------------------------------------
(* C4: the palette has one material per distinct alpha-inverted colour, and the *)
(* names color_0, color_1, ... follow the sorted order of the colours, so that  *)
(* the same parts always get the same names.                                    *)
LexLess(a, b) ==
    \E i \in 1..4 : a[i] < b[i] /\ \A j \in 1..(i - 1) : a[j] = b[j]

RECURSIVE SortedColors(_)
SortedColors(S) ==
    IF S = {} THEN <<>>
    ELSE LET m == CHOOSE x \in S : \A y \in S \ {x} : LexLess(x, y)
         IN  <<m>> \o SortedColors(S \ {m})

PartColors == {<<assembly[k].ShapeColor[1], assembly[k].ShapeColor[2],
                 assembly[k].ShapeColor[3], 100 - assembly[k].ShapeColor[4]>> :
               k \in DOMAIN assembly}

\* the material elements of the palette: those before the grid material
PaletteMaterials ==
    SelectSeq(Section("asset")[1].children,
              LAMBDA c : c.tag = "material" /\ c.attrib.name # "grid")

C4_PaletteInSortedOrder ==
    Reached({"add_bodies", "add_equalities", "add_actuators", "write", "done"}) =>
        /\ Len(PaletteMaterials) = Cardinality(PartColors)
        /\ \A i \in DOMAIN PaletteMaterials :
               /\ PaletteMaterials[i].attrib.name = "color_" \o ToString(i - 1)
               /\ PaletteMaterials[i].attrib.rgba =
                      Join(" ", [c \in 1..4 |-> Format2f(SortedColors(PartColors)[i][c])])

----------------------------------------------------------------------------
(* C5: a node whose joint type is "freejoint" gets a freejoint element that    *)
(* carries its name and nothing else, whatever position or parameters the node *)
(* declares; a node whose type is spelled "free" is an ordinary joint and      *)
(* carries type and pos.                                                       *)
BodyOf(label) == CHOOSE b \in AllBodies(Worldbody) : b.attrib.name = label

----------------------------------------------------------------------------
(* C6: the output has an equality element exactly when the document has an     *)
(* equality key, and an actuator element exactly when it has an actuator key;  *)
(* a missing key leaves no element, not an empty one.                          *)
C6_AbsentSectionStaysAbsent ==
    /\ Len(Section("equality")) =
           (IF AfterEqualities /\ "equality" \in DOMAIN mujoco_info THEN 1 ELSE 0)
    /\ Len(Section("actuator")) =
           (IF AfterActuators /\ "actuator" \in DOMAIN mujoco_info THEN 1 ELSE 0)
    /\ pc = "done" =>
           /\ Len(Children(model_file, "equality")) =
                  (IF "equality" \in DOMAIN mujoco_info THEN 1 ELSE 0)
           /\ Len(Children(model_file, "actuator")) =
                  (IF "actuator" \in DOMAIN mujoco_info THEN 1 ELSE 0)

\* a written model of a document with actuators and without equalities
C6_Witness ==
    /\ pc = "done"
    /\ "equality" \notin DOMAIN mujoco_info
    /\ "actuator" \in DOMAIN mujoco_info
    /\ Children(model_file, "equality") = <<>>
    /\ Len(Children(model_file, "actuator")) = 1

----------------------------------------------------------------------------
(* C7: a document with a valid body tree that lacks the compiler section, the  *)
(* option section or both is compiled without an exception, and the compiler   *)
(* and option elements then carry their default attributes only.               *)
ValidBodyTree == bodies_error(get_part_info(assembly), mujoco_info) = ""

C7_MissingSectionIsNoError ==
    (ValidBodyTree /\ ("compiler" \notin DOMAIN mujoco_info
                       \/ "option" \notin DOMAIN mujoco_info)) =>
        /\ ~(pc = "error" /\ err = "KeyError: 'option'")
        /\ (pc = "done" /\ "compiler" \notin DOMAIN mujoco_info) =>
               Children(model_file, "compiler")[1].attrib = DEFAULT_COMPILER_ATTRIB
        /\ (pc = "done" /\ "option" \notin DOMAIN mujoco_info) =>
               Children(model_file, "option")[1].attrib = OPTION_ATTRIB

----------------------------------------------------------------------------
(* The encoding the specification gives for a configuration value: a boolean  *)
(* as the lowercase word, a list as its components joined by single spaces,   *)
(* any other scalar as its plain string form.                                 *)
Encoded(v) ==
    IF "bool" \in DOMAIN v THEN (IF v.bool THEN "true" ELSE "false")
    ELSE IF "list" \in DOMAIN v
    THEN Join(" ", [i \in DOMAIN v.list |-> PyStr(v.list[i])])
    ELSE IF "int" \in DOMAIN v THEN ToString(v.int)
    ELSE v.str

\* the rotations of the model as maps of the coordinates
Rotated(q, v) ==
    CASE q = IdentityQ -> v
      [] q = DiagQ     -> <<v[3], v[1], v[2]>>
      [] q = TurnXQ    -> <<v[1], 0 - v[2], 0 - v[3]>>
      [] q = TurnZQ    -> <<0 - v[1], 0 - v[2], v[3]>>

Text(v) == Join(" ", <<ToString(v[1]), ToString(v[2]), ToString(v[3])>>)

----------------------------------------------------------------------------
(* C8: for an equality whose parameters hold anchor and body2, the anchor      *)
(* attribute is R.a + T, with a the named point of body2's source document and *)
(* R, T body2's rotation and position in the assembly; every other parameter   *)
(* keeps its key and carries its value encoded as text.                        *)
C8_AnchorIsRotatedAndTranslated ==
    (AfterEqualities /\ "equality" \in DOMAIN mujoco_info) =>
        \A i \in DOMAIN mujoco_info.equality :
            LET decl == mujoco_info.equality[i]
                out  == Section("equality")[1].children[i]
            IN  ("parameters" \in DOMAIN decl
                 /\ {"anchor", "body2"} \subseteq DOMAIN decl.parameters) =>
                    LET body2 == assembly[decl.parameters.body2.str]
                        a     == SourceDocs[body2.sourceFile.base]
                                     [decl.parameters.anchor.str].Placement.Base
                        T     == body2.Placement.Base
                        Ra    == Rotated(body2.Placement.Rotation, a)
                    IN  /\ out.attrib.anchor =
                               Text(<<Ra[1] + T[1], Ra[2] + T[2], Ra[3] + T[3]>>)
                        /\ DOMAIN out.attrib = DOMAIN decl.parameters
                        /\ \A k \in DOMAIN decl.parameters \ {"anchor"} :
                               out.attrib[k] = Encoded(decl.parameters[k])

\* a written model whose equality is anchored on a part turned about the diagonal
C8_Witness ==
    /\ pc = "done"
    /\ "equality" \in DOMAIN mujoco_info
    /\ \E i \in DOMAIN mujoco_info.equality :
           /\ "parameters" \in DOMAIN mujoco_info.equality[i]
           /\ {"anchor", "body2"} \subseteq DOMAIN mujoco_info.equality[i].parameters
           /\ assembly[mujoco_info.equality[i].parameters.body2.str].Placement.Rotation = DiagQ
           /\ "anchor" \in DOMAIN Children(model_file, "equality")[1].children[i].attrib

----------------------------------------------------------------------------
(* C9: for a joint that is not free and has an axis parameter, a reference     *)
(* label gives the named datum's +Z, looked up in the parent part's source     *)
(* document and rotated by the parent's orientation; a literal numeric vector  *)
(* is emitted unmodified, its components joined by spaces.                     *)
RECURSIVE Edges(_)
\* the <<parent, child>> pairs of a topology tree
Edges(node) ==
    IF "children" \in DOMAIN node
    THEN UNION {{<<node, node.children[i]>>} \cup Edges(node.children[i]) :
                i \in DOMAIN node.children}
    ELSE {}

HasAxis(node) ==
    /\ "joint" \in DOMAIN node
    /\ node.joint.type \notin {"free", "freejoint"}
    /\ "parameters" \in DOMAIN node.joint
    /\ "axis" \in DOMAIN node.joint.parameters

AxisOf(node) == Children(BodyOf(node.label), "joint")[1].attrib.axis

\* the half about reference labels
C9_ReferenceAxisUsesParentFrame ==
    AfterBodies =>
        \A e \in Edges(Tree) :
            (HasAxis(e[2]) /\ "str" \in DOMAIN e[2].joint.parameters.axis) =>
                LET parent == assembly[e[1].label]
                    datum  == SourceDocs[parent.sourceFile.base]
                                  [e[2].joint.parameters.axis.str].Placement.Rotation
                IN  AxisOf(e[2]) =
                        Text(Rotated(parent.Placement.Rotation, Rotated(datum, <<0, 0, 1>>)))

\* the half about literal vectors: the compile goes through and the vector is copied
C9_LiteralAxisIsCopied ==
    \A e \in Edges(Tree) :
        (HasAxis(e[2]) /\ "list" \in DOMAIN e[2].joint.parameters.axis) =>
            /\ ~(pc = "error" /\ err = "TypeError")
            /\ AfterBodies =>
                   AxisOf(e[2]) = Join(" ", [i \in DOMAIN e[2].joint.parameters.axis.list |->
                                                ToString(e[2].joint.parameters.axis.list[i].int)])

C9_AxisResolution == C9_ReferenceAxisUsesParentFrame /\ C9_LiteralAxisIsCopied

----------------------------------------------------------------------------
(* C10: one encoding in all four places: the value v is emitted as the same    *)
(* text, Encoded(v), in the compiler and option blocks and as a joint, an      *)
(* equality or an actuator parameter.                                          *)
ParamsOf(decl) == IF "parameters" \in DOMAIN decl THEN decl.parameters ELSE <<>>

C10_OneEncodingEverywhere ==
    /\ (Reached({"add_option", "add_assets", "add_bodies", "add_equalities",
                 "add_actuators", "write", "done"})
        /\ "compiler" \in DOMAIN mujoco_info) =>
           \A k \in DOMAIN mujoco_info.compiler :
               Section("compiler")[1].attrib[k] = Encoded(mujoco_info.compiler[k])
    /\ (Reached({"add_assets", "add_bodies", "add_equalities", "add_actuators",
                 "write", "done"})
        /\ "option" \in DOMAIN mujoco_info) =>
           \A k \in DOMAIN mujoco_info.option :
               Section("option")[1].attrib[k] = Encoded(mujoco_info.option[k])
    /\ AfterBodies =>
           \A node \in AllNodes(Tree) :
               ("joint" \in DOMAIN node /\ node.joint.type # "freejoint") =>
                   \A k \in DOMAIN ParamsOf(node.joint) \ {"axis"} :
                       Children(BodyOf(node.label), "joint")[1].attrib[k]
                           = Encoded(node.joint.parameters[k])
    /\ (AfterEqualities /\ "equality" \in DOMAIN mujoco_info) =>
           \A i \in DOMAIN mujoco_info.equality :
               \A k \in DOMAIN ParamsOf(mujoco_info.equality[i]) \ {"anchor"} :
                   Section("equality")[1].children[i].attrib[k]
                       = Encoded(mujoco_info.equality[i].parameters[k])
    /\ (AfterActuators /\ "actuator" \in DOMAIN mujoco_info) =>
           \A i \in DOMAIN mujoco_info.actuator :
               \A k \in DOMAIN ParamsOf(mujoco_info.actuator[i]) :
                   Section("actuator")[1].children[i].attrib[k]
                       = Encoded(mujoco_info.actuator[i].parameters[k])

\* the same without the option block: what convert_value_to_mujoco_xml covers
C10_EncodingOutsideOptionBlock ==
    /\ (Reached({"add_option", "add_assets", "add_bodies", "add_equalities",
                 "add_actuators", "write", "done"})
        /\ "compiler" \in DOMAIN mujoco_info) =>
           \A k \in DOMAIN mujoco_info.compiler :
               Section("compiler")[1].attrib[k] = Encoded(mujoco_info.compiler[k])
    /\ (AfterActuators /\ "actuator" \in DOMAIN mujoco_info) =>
           \A i \in DOMAIN mujoco_info.actuator :
               \A k \in DOMAIN ParamsOf(mujoco_info.actuator[i]) :
                   Section("actuator")[1].children[i].attrib[k]
                       = Encoded(mujoco_info.actuator[i].parameters[k])

----------------------------------------------------------------------------
(* C11: a compile is all-or-nothing. If a reference the compile looks up does  *)
(* not resolve (a topology label with no part, the root point or a joint axis  *)
(* with no object in the source document, an anchored equality's body2 with no *)
(* part or its anchor with no object), the step that looks it up never         *)
(* returns and model.xml is left as it was; model.xml changes only in the      *)
(* final write, after the option, asset, body, equality and actuator steps,    *)
(* and what is written is the whole tree.                                      *)
HasTree == "worldbody" \in DOMAIN mujoco_info /\ "body_tree" \in DOMAIN mujoco_info.worldbody

\* the labels of a part's source document
DocLabels(label) == DOMAIN SourceDocs[assembly[label].sourceFile.base]

MissingTopologyLabel ==
    HasTree /\ \E n \in AllNodes(Tree) : n.label \notin DOMAIN assembly

MissingRootPoint ==
    /\ HasTree
    /\ Tree.label \in DOMAIN assembly
    /\ "joint" \in DOMAIN Tree
    /\ "position" \in DOMAIN Tree.joint
    /\ "str" \in DOMAIN Tree.joint.position
    /\ Tree.joint.position.str \notin DocLabels(Tree.label)

MissingAxis ==
    /\ HasTree
    /\ \E e \in Edges(Tree) :
           /\ e[1].label \in DOMAIN assembly
           /\ "joint" \in DOMAIN e[2]
           /\ e[2].joint.type # "freejoint"
           /\ "parameters" \in DOMAIN e[2].joint
           /\ "axis" \in DOMAIN e[2].joint.parameters
           /\ "str" \in DOMAIN e[2].joint.parameters.axis
           /\ e[2].joint.parameters.axis.str \notin DocLabels(e[1].label)

\* the equality declarations that carry an anchor
Anchored ==
    IF "equality" \in DOMAIN mujoco_info
    THEN {mujoco_info.equality[i] : i \in
             {j \in DOMAIN mujoco_info.equality :
                 /\ "parameters" \in DOMAIN mujoco_info.equality[j]
                 /\ "anchor" \in DOMAIN mujoco_info.equality[j].parameters}}
    ELSE {}

MissingBody2 == \E d \in Anchored : d.parameters.body2.str \notin DOMAIN assembly

MissingAnchor ==
    \E d \in Anchored :
        /\ d.parameters.body2.str \in DOMAIN assembly
        /\ d.parameters.anchor.str \notin DocLabels(d.parameters.body2.str)

\* the tree holds every section the configuration asks for
Complete(elem) ==
    /\ Len(Children(elem, "compiler")) = 1
    /\ Len(Children(elem, "option")) = 1
    /\ Len(Children(elem, "asset")) = 1
    /\ Len(Children(elem, "worldbody")) = 1
    /\ Len(Children(elem, "equality")) = (IF "equality" \in DOMAIN mujoco_info THEN 1 ELSE 0)
    /\ Len(Children(elem, "actuator")) = (IF "actuator" \in DOMAIN mujoco_info THEN 1 ELSE 0)

C11_AllOrNothing ==
    /\ []((MissingTopologyLabel \/ MissingRootPoint \/ MissingAxis) => ~AfterBodies)
    /\ []((MissingBody2 \/ MissingAnchor) => ~AfterEqualities)
    /\ [](pc = "error" => model_file \in {NoFile, StaleFile})
    /\ [][model_file' # model_file =>
              /\ pc = "write" /\ pc' = "done"
              /\ model_file' = root_elem
              /\ Complete(root_elem)]_vars

\* the second body of an equality names no part: the compile has stopped with
\* the option and asset sections built, and the model.xml of an earlier run
\* is still there
C11_Witness ==
    /\ pc = "error"
    /\ MissingBody2
    /\ ~(MissingTopologyLabel \/ MissingRootPoint \/ MissingAxis)
    /\ Len(Section("worldbody")) = 1
    /\ model_file = StaleFile

----------------------------------------------------------------------------
(* C12: every position written to the scene is measured from the root anchor:  *)
(* an equality's anchor is R.a + T minus the root anchor, as a body's pos is   *)
(* its absolute position minus the root anchor, so that an anchor at body2's   *)
(* own origin (a = 0) is written with the coordinates of body2's pos.          *)
C12_AnchorsShareBodyOrigin ==
    AfterEqualities =>
        \A d \in Anchored :
            LET i     == CHOOSE j \in DOMAIN mujoco_info.equality : mujoco_info.equality[j] = d
                out   == Section("equality")[1].children[i]
                label == d.parameters.body2.str
                body2 == assembly[label]
                a     == SourceDocs[body2.sourceFile.base][d.parameters.anchor.str].Placement.Base
                Ra    == Rotated(body2.Placement.Rotation, a)
                T     == body2.Placement.Base
            IN  /\ out.attrib.anchor = Text(VecSub(VecAdd(Ra, T), RootAnchor))
                /\ (a = <<0, 0, 0>> /\ \E b \in AllBodies(Worldbody) : b.attrib.name = label) =>
                       out.attrib.anchor = BodyOf(label).attrib.pos

----------------------------------------------------------------------------
(* C13: for every body, the material its geom names is a material element of   *)
(* the asset section, and that element's rgba is the part's own colour with    *)
(* the alpha channel inverted, whatever order each of the two calls of         *)
(* get_color_list lists the colours in.                                        *)
GeomOf(body) == Children(body, "geom")[1]

\* the text of a part's colour with its alpha inverted
InvertedRgba(label) ==
    LET c == assembly[label].ShapeColor
    IN  Join(" ", <<Format2f(c[1]), Format2f(c[2]), Format2f(c[3]), Format2f(100 - c[4])>>)

----------------------------------------------------------------------------
(* C14: the asset section holds exactly one mesh element per distinct source   *)
(* file base name, also when several parts come from the same source file, and *)
(* each body's geom mesh attribute, the part's base name, matches exactly one  *)
(* mesh element.                                                               *)
Meshes == Children(Section("asset")[1], "mesh")

BaseNames == {assembly[k].sourceFile.base : k \in DOMAIN assembly}

\* the mesh elements a geom's mesh attribute matches
MeshesNamed(name) ==
    {i \in DOMAIN Meshes : Meshes[i].attrib.file = "./mesh_files/" \o name \o ".stl"}

C14_OneMeshPerSourceFile ==
    /\ Reached({"add_bodies", "add_equalities", "add_actuators", "write", "done"}) =>
           /\ Len(Meshes) = Cardinality(BaseNames)
           /\ \A n \in BaseNames : Cardinality(MeshesNamed(n)) = 1
    /\ AfterBodies =>
           \A b \in AllBodies(Worldbody) :
               /\ GeomOf(b).attrib.mesh = assembly[b.attrib.name].sourceFile.base
               /\ Cardinality(MeshesNamed(GeomOf(b).attrib.mesh)) = 1

====
